---- MODULE Spec2Model ----
\* Model of nyrag/deploy.py: the deploy orchestrator deploy_app_package, the
\* version-adaptive invoker _deploy_with_pyvespa, the failure classifier, the
\* confirmation gate and the validation-override writer; and of chunks in
\* nyrag/utils.py.
EXTENDS Integers, Sequences, FiniteSets, TLC

\* ---------------------------------------------------------------- bounds
\* number of temporary directories the platform can hand out
MaxTmp == 2
\* longest message handed to the classifier on its own, in fragments
MaxMsgLen == 2
\* longest line typed at the confirmation prompt, in characters
MaxAnsLen == 4
\* calls of _write_validation_overrides made on one directory
MaxWrites == 2
\* longest text handed to chunks, in characters
MaxTextLen == 7
\* largest chunk_size and overlap handed to chunks
MaxChunkSize == 3

\* ---------------------------------------------------------------- text
\* A message is a sequence of fragments; str.lower() acts fragment by fragment
\* and the `in` operator finds a needle that is one of the fragments.
_CLUSTER_REMOVAL_ALLOWLIST_TOKEN == "content-cluster-removal"

_MISSING_PACKAGE_ERROR == "Either application_package or application_root must be set"

Fragments ==
    { "content-cluster-removal", "Content-Cluster-Removal", "content cluster",
      "Content Cluster", "removed", "REMOVED", "timeout",
      "Either application_package or application_root must be set",
      "either application_package or application_root must be set" }

LowerFrag(f) ==
    CASE f = "Content-Cluster-Removal" -> "content-cluster-removal"
      [] f = "Content Cluster" -> "content cluster"
      [] f = "REMOVED" -> "removed"
      [] f = "Either application_package or application_root must be set"
            -> "either application_package or application_root must be set"
      [] OTHER -> f

LowerMsg(msg) == [i \in DOMAIN msg |-> LowerFrag(msg[i])]

Contains(msg, needle) == \E i \in DOMAIN msg : msg[i] = needle

\* every message of at most MaxMsgLen fragments
Messages == UNION { [1..n -> Fragments] : n \in 0..MaxMsgLen }

\* messages the client's failures carry: empty, unrelated, the allow-list
\* token in another case, the two-phrase wording, one phrase alone, the
\* missing-package text (exact and in another case), and a message that is
\* both a missing-package text and a cluster-removal refusal
ClientMessages ==
    { <<>>, <<"timeout">>, <<"Content-Cluster-Removal">>,
      <<"REMOVED", "timeout", "content cluster">>,
      <<"content cluster">>,
      <<"Either application_package or application_root must be set">>,
      <<"either application_package or application_root must be set">>,
      <<"Either application_package or application_root must be set",
        "content-cluster-removal">> }

\* ---------------------------------------------------------------- exceptions
ExcTypes == { "TypeError", "RuntimeError" }

Exceptions == [type : ExcTypes, msg : ClientMessages]

NoExc == [type |-> "none", msg |-> <<>>]

\* ---------------------------------------------------------------- dates
IsLeap(y) == (y % 4 = 0 /\ y % 100 # 0) \/ y % 400 = 0

DaysInMonth(y, m) ==
    IF m = 2 THEN (IF IsLeap(y) THEN 29 ELSE 28)
    ELSE IF m \in {4, 6, 9, 11} THEN 30 ELSE 31

NextDay(d) ==
    IF d.day < DaysInMonth(d.year, d.month)
    THEN [d EXCEPT !.day = d.day + 1]
    ELSE IF d.month < 12
         THEN [year |-> d.year, month |-> d.month + 1, day |-> 1]
         ELSE [year |-> d.year + 1, month |-> 1, day |-> 1]

RECURSIVE AddDays(_, _)
AddDays(d, n) == IF n = 0 THEN d ELSE AddDays(NextDay(d), n - 1)

DigitChar(n) == <<"0", "1", "2", "3", "4", "5", "6", "7", "8", "9">>[n + 1]

RECURSIVE Pad(_, _)
Pad(n, width) ==
    IF width = 0 THEN <<>> ELSE Append(Pad(n \div 10, width - 1), DigitChar(n % 10))

IsoFormat(d) == Pad(d.year, 4) \o <<"-">> \o Pad(d.month, 2) \o <<"-">> \o Pad(d.day, 2)

OverrideDays_short == 7 - 1

OverrideDays == 7

\* the days date.today() is read on: a leap February, a year end and an
\* ordinary day
Todays ==
    { [year |-> 2024, month |-> 2, day |-> 23],
      [year |-> 2025, month |-> 12, day |-> 27],
      [year |-> 2026, month |-> 11, day |-> 2] }

NoDate == [year |-> 0, month |-> 0, day |-> 0]

_validation_overrides_xml(until) ==
    <<"<validation-overrides>\n", "  <allow until='">> \o IsoFormat(until)
        \o <<"'>", _CLUSTER_REMOVAL_ALLOWLIST_TOKEN, "</allow>\n",
             "</validation-overrides>\n">>

\* ---------------------------------------------------------------- classifier
\* variant: either phrase alone is taken for a refusal
_looks_like_cluster_removal_error_either(message) ==
    IF message = <<>> THEN FALSE
    ELSE LET lowered == LowerMsg(message) IN
         IF Contains(lowered, _CLUSTER_REMOVAL_ALLOWLIST_TOKEN) THEN TRUE
         ELSE Contains(lowered, "content cluster") \/ Contains(lowered, "removed")

\* variant: the message is searched as it is, without lower()
_looks_like_cluster_removal_error_cased(message) ==
    IF message = <<>> THEN FALSE
    ELSE IF Contains(message, _CLUSTER_REMOVAL_ALLOWLIST_TOKEN) THEN TRUE
         ELSE Contains(message, "content cluster") /\ Contains(message, "removed")

_looks_like_cluster_removal_error(message) ==
    IF message = <<>> THEN FALSE
    ELSE LET lowered == LowerMsg(message) IN
         IF Contains(lowered, _CLUSTER_REMOVAL_ALLOWLIST_TOKEN) THEN TRUE
         ELSE Contains(lowered, "content cluster") /\ Contains(lowered, "removed")

\* variant: every failure is taken for a shape mismatch
_should_fallback_any(exc) == TRUE

\* variant: the missing-package text is looked for in any case
_should_fallback_lowered(exc) ==
    IF exc.type = "TypeError" THEN TRUE
    ELSE Contains(LowerMsg(exc.msg), LowerFrag(_MISSING_PACKAGE_ERROR))

_should_fallback(exc) ==
    IF exc.type = "TypeError" THEN TRUE
    ELSE Contains(exc.msg, _MISSING_PACKAGE_ERROR)

\* ---------------------------------------------------------------- gate input
Whitespace == { " ", "\t" }

RECURSIVE LStrip(_)
LStrip(s) == IF s # <<>> /\ Head(s) \in Whitespace THEN LStrip(Tail(s)) ELSE s

RECURSIVE RStrip(_)
RStrip(s) ==
    IF s # <<>> /\ s[Len(s)] \in Whitespace THEN RStrip(SubSeq(s, 1, Len(s) - 1)) ELSE s

\* variant: only leading whitespace is removed
Strip_left(s) == LStrip(s)

Strip(s) == RStrip(LStrip(s))

LowerChar(c) ==
    CASE c = "Y" -> "y" [] c = "E" -> "e" [] c = "S" -> "s" [] c = "N" -> "n"
      [] c = "O" -> "o" [] OTHER -> c

LowerStr(s) == [i \in DOMAIN s |-> LowerChar(s[i])]

\* the lines a user types at the prompt
Answers ==
    { <<"y">>, <<" ", "Y", "E", "S", "\t">>, <<>>, <<"n">>, <<"Y", "e", "s", "!">> }

NoAnswer == <<"-">>

\* characters of a typed line
AnswerChars == { " ", "y", "Y", "e", "E", "s", "n", "!" }

\* every line of at most MaxAnsLen characters
Lines == UNION { [1..n -> AnswerChars] : n \in 0..MaxAnsLen }

\* messages shown by the gate: empty, blank, and a refusal with blanks around
GateMessages == { <<>>, <<" ", "\t">>, <<" ", "content cluster", "removed", " ">> }

\* ---------------------------------------------------------------- inputs
None == -1

CallerDir == 0

TmpDirs == 1..MaxTmp

Dirs == {CallerDir} \cup TmpDirs

\* DeployConfig as seen through its accessors
DeployConfigs ==
    { [local |-> TRUE, tenant |-> "", application |-> "", api_key_path |-> "", api_key |-> ""],
      [local |-> FALSE, tenant |-> "", application |-> "app", api_key_path |-> "", api_key |-> "key"],
      [local |-> FALSE, tenant |-> "acme", application |-> "", api_key_path |-> "/k.pem", api_key |-> ""],
      [local |-> FALSE, tenant |-> "acme", application |-> "app", api_key_path |-> "", api_key |-> "key"] }

\* parameter names inspect.signature reports for the resolved client class
DockerSignatures ==
    { {"port"}, {"image", "docker_image", "port"},
      {"docker_image", "cfgsrv_url", "application_package", "application_root"} }

CloudSignatures ==
    { {"tenant", "application", "application_package", "api_key"},
      {"tenant", "application", "instance", "application_root", "api_key_path", "api_key", "output_file"} }

Handles == { "h1", "h2" }

NoHandle == "none"

AttrNames == <<"application_package", "app_package", "package", "application_root">>

\* the attributes, among AttrNames, that the client object has
ClientAttrSets ==
    { {}, {"package"}, {"application_package", "application_root"} }

EmptyDir == [exists |-> FALSE, pkg |-> FALSE, other |-> FALSE, override |-> <<>>]

VARIABLES
    deploy_config,      \* the resolved DeployConfig
    signature,          \* parameters the client constructor declares
    mode,               \* "docker" | "cloud" (line 166)
    app_dir,            \* the app_dir parameter / local (rebound at line 287)
    attempted_override, \* line 168
    tmp,                \* the TemporaryDirectory the local `tmp` refers to, or None
    effective_app_dir,  \* line 172
    init_kwargs,        \* keyword arguments of the last constructor call
    deployerAttrs,      \* attributes assigned on the client by the last resort
    fs,                 \* the directories: existence and content
    garbage,            \* TemporaryDirectory objects no name refers to any more
    nextTmp,            \* next temporary directory mkdtemp hands out
    pc,                 \* position in deploy_app_package / _deploy_with_pyvespa
    exc,                \* exception caught at line 269
    lastExc,            \* last exception a deploy() call raised
    calls,              \* history of deploy() calls of this top-level call
    vespa_app,          \* value _deploy_with_pyvespa returned
    outcome,            \* "none" | "true" | "false" | "raised"
    raised,             \* exception that left deploy_app_package
    loopIters,          \* executions of the loop body
    gateCalls,          \* invocations of _confirm_cluster_removal
    overrideWrites,     \* invocations of _write_validation_overrides
    constructs,         \* client constructor calls
    gate,               \* what the gate saw and answered
    today,              \* what date.today() returned at line 272
    until,              \* line 272
    overrideDir,        \* directory validation-overrides.xml was written into
    clf,                \* a call of _looks_like_cluster_removal_error on its own
    confirm,            \* a call of _confirm_cluster_removal on its own
    wcall,              \* calls of _write_validation_overrides on one directory
    chk,                \* a call of utils.chunks
    inv,                \* a call of _deploy_with_pyvespa on its own
    kw                  \* the constructor arguments built for one signature

\* the state of one deploy_app_package call
deployVars ==
    << deploy_config, signature, mode, app_dir, attempted_override, tmp,
       effective_app_dir, init_kwargs, deployerAttrs, fs, garbage, nextTmp, pc,
       exc, lastExc, calls, vespa_app, outcome, raised, loopIters, gateCalls,
       overrideWrites, constructs, gate, today, until, overrideDir >>

\* a function that is not being called
Idle == [pc |-> "idle"]

vars ==
    << clf, confirm, wcall, chk, inv, kw,
       deploy_config, signature, mode, app_dir, attempted_override, tmp,
       effective_app_dir, init_kwargs, deployerAttrs, fs, garbage, nextTmp, pc,
       exc, lastExc, calls, vespa_app, outcome, raised, loopIters, gateCalls,
       overrideWrites, constructs, gate, today, until, overrideDir >>

NoGate == [isatty |-> FALSE, answer |-> NoAnswer, result |-> FALSE]

Init ==
    /\ deploy_config \in DeployConfigs
    /\ mode = IF deploy_config.local THEN "docker" ELSE "cloud"
    /\ signature \in (IF deploy_config.local THEN DockerSignatures ELSE CloudSignatures)
    /\ app_dir \in {None, CallerDir}
    /\ attempted_override = FALSE
    /\ tmp = None
    /\ effective_app_dir = None
    /\ init_kwargs = <<>>
    /\ deployerAttrs = <<>>
    /\ \E callerExists \in BOOLEAN :
          fs = [d \in Dirs |->
                  IF d = CallerDir /\ app_dir = CallerDir /\ callerExists
                  THEN [exists |-> TRUE, pkg |-> TRUE, other |-> TRUE, override |-> <<>>]
                  ELSE EmptyDir]
    /\ garbage = {}
    /\ nextTmp = 1
    /\ pc = "loop"
    /\ exc = NoExc
    /\ lastExc = NoExc
    /\ calls = <<>>
    /\ vespa_app = NoHandle
    /\ outcome = "none"
    /\ raised = NoExc
    /\ loopIters = 0
    /\ gateCalls = 0
    /\ overrideWrites = 0
    /\ constructs = 0
    /\ gate = NoGate
    /\ today = NoDate
    /\ until = NoDate
    /\ overrideDir = None
    /\ clf = Idle /\ confirm = Idle /\ wcall = Idle /\ chk = Idle
    /\ inv = Idle /\ kw = Idle

\* ---------------------------------------------------------------- helpers
DEFAULT_VESPA_DOCKER_IMAGE == "vespaengine/vespa"

\* variant: image and docker_image are both passed when both are declared
DockerInitKwargs_both(sig, root) ==
    LET keys == {"image", "docker_image", "cfgsrv_url", "application_package",
                 "application_root"} \cap sig
        value(k) == CASE k \in {"image", "docker_image"} -> DEFAULT_VESPA_DOCKER_IMAGE
                      [] k = "cfgsrv_url" -> "configserver_url"
                      [] k = "application_package" -> "app_package"
                      [] k = "application_root" -> root
    IN [k \in keys |-> value(k)]

\* lines 190-205: keyword arguments for the local client constructor
DockerInitKwargs(sig, root) ==
    LET imageKey == IF "image" \in sig THEN {"image"}
                    ELSE IF "docker_image" \in sig THEN {"docker_image"} ELSE {}
        keys == imageKey
                  \cup ({"cfgsrv_url", "application_package", "application_root"} \cap sig)
        value(k) == CASE k \in {"image", "docker_image"} -> DEFAULT_VESPA_DOCKER_IMAGE
                      [] k = "cfgsrv_url" -> "configserver_url"
                      [] k = "application_package" -> "app_package"
                      [] k = "application_root" -> root
    IN [k \in keys |-> value(k)]

\* lines 225-255: keyword arguments for the cloud client constructor
CloudInitKwargs(sig, cfg, root) ==
    LET application == IF cfg.application # "" THEN cfg.application ELSE "app_package.name"
        keys == ({"tenant", "application", "instance", "application_package",
                  "application_root"} \cap sig)
                  \cup (IF cfg.api_key_path # "" THEN {"api_key_path"} \cap sig ELSE {})
                  \cup (IF cfg.api_key # "" THEN {"api_key"} \cap sig ELSE {})
        value(k) == CASE k = "tenant" -> cfg.tenant
                      [] k = "application" -> application
                      [] k = "instance" -> "instance"
                      [] k = "application_package" -> "app_package"
                      [] k = "application_root" -> root
                      [] k = "api_key_path" -> cfg.api_key_path
                      [] k = "api_key" -> cfg.api_key
    IN [k \in keys |-> value(k)]

\* app_package.to_files(dir): the package materialized into dir
ToFiles(f, d) == [f EXCEPT ![d].exists = TRUE, ![d].pkg = TRUE]

\* variant: the document is appended to the file that is there
_write_validation_overrides_append(f, d, u) ==
    [f EXCEPT ![d].exists = TRUE, ![d].override = @ \o _validation_overrides_xml(u)]

\* lines 62-67: mkdir(parents, exist_ok) then one write_text
_write_validation_overrides(f, d, u) ==
    [f EXCEPT ![d].exists = TRUE, ![d].override = _validation_overrides_xml(u)]

\* variant: on a terminal, anything but "n"/"no" confirms
_confirm_cluster_removal_default_yes(isatty, answer) ==
    IF ~isatty THEN FALSE
    ELSE LowerStr(Strip(answer)) \notin { <<"n">>, <<"n", "o">> }

\* lines 39-59
_confirm_cluster_removal(isatty, answer) ==
    IF ~isatty THEN FALSE
    ELSE LowerStr(Strip(answer)) \in { <<"y">>, <<"y", "e", "s">> }

\* variant: the attempted-override flag is not consulted
NeedsOverride_unflagged(e, attempted) == _looks_like_cluster_removal_error(e.msg)

\* line 271: the failure is a cluster-removal refusal and no override was tried
NeedsOverride(e, attempted) == _looks_like_cluster_removal_error(e.msg) /\ ~attempted

\* rebinding or clearing the name `tmp` releases the object it referred to
Released(t) == IF t # None THEN {t} ELSE {}

Call(shape, ok, result) ==
    [attempt |-> loopIters, shape |-> shape, ok |-> ok, result |-> result]

\* ---------------------------------------------------------------- actions
\* variant: the package is written into whatever directory is the root
LoopTop_materialize ==
    /\ pc = "loop"
    /\ loopIters' = loopIters + 1
    /\ garbage' = garbage \cup Released(tmp)
    /\ exc' = NoExc
    /\ lastExc' = NoExc
    /\ IF app_dir # None
       THEN /\ tmp' = None
            /\ effective_app_dir' = app_dir
            /\ fs' = ToFiles(fs, app_dir)
            /\ UNCHANGED nextTmp
       ELSE /\ nextTmp <= MaxTmp
            /\ tmp' = nextTmp
            /\ effective_app_dir' = nextTmp
            /\ fs' = ToFiles(fs, nextTmp)
            /\ nextTmp' = nextTmp + 1
    /\ pc' = "select"
    /\ UNCHANGED << clf, confirm, wcall, chk, inv, kw,
                    deploy_config, signature, mode, app_dir, attempted_override,
                    init_kwargs, deployerAttrs, calls, vespa_app, outcome, raised,
                    gateCalls, overrideWrites, constructs, gate, today, until, overrideDir >>

\* lines 169-176: top of the loop body, the application root is resolved
LoopTop ==
    /\ pc = "loop"
    /\ loopIters' = loopIters + 1
    /\ garbage' = garbage \cup Released(tmp)
    /\ exc' = NoExc
    /\ lastExc' = NoExc
    /\ IF app_dir # None
       THEN /\ tmp' = None
            /\ effective_app_dir' = app_dir
            /\ UNCHANGED << fs, nextTmp >>
       ELSE /\ nextTmp <= MaxTmp
            /\ tmp' = nextTmp
            /\ effective_app_dir' = nextTmp
            /\ fs' = ToFiles(fs, nextTmp)
            /\ nextTmp' = nextTmp + 1
    /\ pc' = "select"
    /\ UNCHANGED << clf, confirm, wcall, chk, inv, kw,
                    deploy_config, signature, mode, app_dir, attempted_override,
                    init_kwargs, deployerAttrs, calls, vespa_app, outcome, raised,
                    gateCalls, overrideWrites, constructs, gate, today, until, overrideDir >>

\* the finalizer of an unreferenced TemporaryDirectory removes its directory;
\* the interpreter runs it at once or at a later collection
Finalize ==
    /\ \E d \in garbage :
          /\ fs' = [fs EXCEPT ![d] = EmptyDir]
          /\ garbage' = garbage \ {d}
    /\ UNCHANGED << clf, confirm, wcall, chk, inv, kw,
                    deploy_config, signature, mode, app_dir, attempted_override, tmp,
                    effective_app_dir, init_kwargs, deployerAttrs, nextTmp, pc, exc,
                    lastExc, calls, vespa_app, outcome, raised, loopIters, gateCalls,
                    overrideWrites, constructs, gate, today, until, overrideDir >>

\* the constructor call returns a client or raises
Constructed(kwargs) ==
    /\ constructs' = constructs + 1
    /\ init_kwargs' = kwargs
    /\ deployerAttrs' = <<>>
    /\ \/ /\ pc' = "shape1"
          /\ exc' = exc
       \/ \E e \in Exceptions :
             /\ exc' = e
             /\ pc' = "handler"
    /\ UNCHANGED << clf, confirm, wcall, chk, inv, kw,
                    deploy_config, signature, mode, app_dir, attempted_override, tmp,
                    effective_app_dir, fs, garbage, nextTmp, lastExc, calls, vespa_app,
                    outcome, raised, loopIters, gateCalls, overrideWrites, gate, today,
                    until, overrideDir >>

\* lines 178-207
ConstructDocker ==
    /\ pc = "select"
    /\ mode = "docker"
    /\ Constructed(DockerInitKwargs(signature, effective_app_dir))

\* lines 218-223: cloud mode without a tenant
MissingTenant ==
    /\ pc = "select"
    /\ mode = "cloud"
    /\ deploy_config.tenant = ""
    /\ exc' = [type |-> "RuntimeError", msg |-> <<"Missing env var: VESPA_CLOUD_TENANT">>]
    /\ pc' = "handler"
    /\ UNCHANGED << clf, confirm, wcall, chk, inv, kw,
                    deploy_config, signature, mode, app_dir, attempted_override, tmp,
                    effective_app_dir, init_kwargs, deployerAttrs, fs, garbage, nextTmp,
                    lastExc, calls, vespa_app, outcome, raised, loopIters, gateCalls,
                    overrideWrites, constructs, gate, today, until, overrideDir >>

\* variant: the client is built without looking at the tenant
ConstructCloud_unchecked ==
    /\ pc = "select"
    /\ mode = "cloud"
    /\ Constructed(CloudInitKwargs(signature, deploy_config, effective_app_dir))

\* lines 218-257
ConstructCloud ==
    /\ pc = "select"
    /\ mode = "cloud"
    /\ deploy_config.tenant # ""
    /\ Constructed(CloudInitKwargs(signature, deploy_config, effective_app_dir))

\* variant: the handle is dropped instead of returned
CallReturns_dropped(shape, h) ==
    /\ calls' = Append(calls, Call(shape, TRUE, h))
    /\ vespa_app' = vespa_app
    /\ pc' = "deployed"
    /\ UNCHANGED << exc, lastExc >>

\* a deploy() call of the given shape returns handle h: the invoker returns it
CallReturns(shape, h) ==
    /\ calls' = Append(calls, Call(shape, TRUE, h))
    /\ vespa_app' = h
    /\ pc' = "deployed"
    /\ UNCHANGED << exc, lastExc >>

\* variant: the failure of the previous shape is the one that propagates
CallRaises_stale(shape, next, e) ==
    /\ calls' = Append(calls, Call(shape, FALSE, NoHandle))
    /\ lastExc' = e
    /\ vespa_app' = vespa_app
    /\ IF next # "handler" /\ _should_fallback(e)
       THEN pc' = next /\ exc' = exc
       ELSE pc' = "handler" /\ exc' = (IF shape > 1 THEN lastExc ELSE e)

\* a deploy() call of the given shape raises e: shapes 1 and 2 move on to the
\* next shape when _should_fallback(e), every other failure propagates
CallRaises(shape, next, e) ==
    /\ calls' = Append(calls, Call(shape, FALSE, NoHandle))
    /\ lastExc' = e
    /\ vespa_app' = vespa_app
    /\ IF next # "handler" /\ _should_fallback(e)
       THEN pc' = next /\ exc' = exc
       ELSE pc' = "handler" /\ exc' = e

\* one deploy() call: the client returns a handle or raises
DeployCall(shape, next) ==
    /\ \/ \E h \in Handles : CallReturns(shape, h)
       \/ \E e \in Exceptions : CallRaises(shape, next, e)
    /\ UNCHANGED << clf, confirm, wcall, chk, inv, kw,
                    deploy_config, signature, mode, app_dir, attempted_override, tmp,
                    effective_app_dir, init_kwargs, fs, garbage, nextTmp, outcome,
                    raised, loopIters, gateCalls, overrideWrites, constructs, gate,
                    today, until, overrideDir >>

\* lines 86-90: deploy(application_package=...)
Shape1 ==
    /\ pc = "shape1"
    /\ DeployCall(1, "shape2")
    /\ UNCHANGED deployerAttrs

\* lines 92-96: deploy(application_root=...)
Shape2 ==
    /\ pc = "shape2"
    /\ DeployCall(2, "shape3")
    /\ UNCHANGED deployerAttrs

\* lines 98-110: the attributes the client has are assigned (a failing
\* assignment is skipped), then deploy() without arguments
Shape3 ==
    /\ pc = "shape3"
    /\ \E has \in ClientAttrSets :
          \E fails \in SUBSET has :
             deployerAttrs' =
                [a \in { AttrNames[i] : i \in DOMAIN AttrNames } \cap (has \ fails) |->
                    IF a = "application_root" THEN effective_app_dir ELSE "app_package"]
    /\ DeployCall(3, "handler")

\* variant: a successful deploy reports false
ReturnTrue_false ==
    /\ pc = "deployed"
    /\ outcome' = "false"
    /\ pc' = "done"
    /\ UNCHANGED << clf, confirm, wcall, chk, inv, kw,
                    deploy_config, signature, mode, app_dir, attempted_override, tmp,
                    effective_app_dir, init_kwargs, deployerAttrs, fs, garbage, nextTmp,
                    exc, lastExc, calls, vespa_app, raised, loopIters, gateCalls,
                    overrideWrites, constructs, gate, today, until, overrideDir >>

\* lines 214-216 and 264-266
ReturnTrue ==
    /\ pc = "deployed"
    /\ outcome' = "true"
    /\ pc' = "done"
    /\ UNCHANGED << clf, confirm, wcall, chk, inv, kw,
                    deploy_config, signature, mode, app_dir, attempted_override, tmp,
                    effective_app_dir, init_kwargs, deployerAttrs, fs, garbage, nextTmp,
                    exc, lastExc, calls, vespa_app, raised, loopIters, gateCalls,
                    overrideWrites, constructs, gate, today, until, overrideDir >>

\* lines 269-278: a cluster-removal refusal before any override, gate denies
HandlerDenied ==
    /\ pc = "handler"
    /\ NeedsOverride(exc, attempted_override)
    /\ today' \in Todays
    /\ until' = AddDays(today', OverrideDays)
    /\ \E isatty \in BOOLEAN :
          \E answer \in (IF isatty THEN Answers ELSE {NoAnswer}) :
             /\ ~_confirm_cluster_removal(isatty, answer)
             /\ gate' = [isatty |-> isatty, answer |-> answer, result |-> FALSE]
    /\ gateCalls' = gateCalls + 1
    /\ outcome' = "false"
    /\ pc' = "done"
    /\ UNCHANGED << clf, confirm, wcall, chk, inv, kw,
                    deploy_config, signature, mode, app_dir, attempted_override, tmp,
                    effective_app_dir, init_kwargs, deployerAttrs, fs, garbage, nextTmp,
                    exc, lastExc, calls, vespa_app, raised, loopIters, overrideWrites,
                    constructs, overrideDir >>

\* lines 269-290: a cluster-removal refusal before any override, gate
\* confirms: the override is written and the loop restarts
HandlerOverride ==
    /\ pc = "handler"
    /\ NeedsOverride(exc, attempted_override)
    /\ today' \in Todays
    /\ until' = AddDays(today', OverrideDays)
    /\ \E isatty \in BOOLEAN :
          \E answer \in (IF isatty THEN Answers ELSE {NoAnswer}) :
             /\ _confirm_cluster_removal(isatty, answer)
             /\ gate' = [isatty |-> isatty, answer |-> answer, result |-> TRUE]
    /\ gateCalls' = gateCalls + 1
    /\ IF app_dir # None
       THEN /\ fs' = _write_validation_overrides(fs, app_dir, until')
            /\ overrideDir' = app_dir
            /\ app_dir' = app_dir
            /\ UNCHANGED << tmp, garbage, nextTmp >>
       ELSE /\ nextTmp <= MaxTmp
            /\ tmp' = nextTmp
            /\ garbage' = garbage \cup Released(tmp)
            /\ fs' = _write_validation_overrides(ToFiles(fs, nextTmp), nextTmp, until')
            /\ overrideDir' = nextTmp
            /\ app_dir' = nextTmp
            /\ nextTmp' = nextTmp + 1
    /\ overrideWrites' = overrideWrites + 1
    /\ attempted_override' = TRUE
    /\ pc' = "loop"
    /\ UNCHANGED << clf, confirm, wcall, chk, inv, kw,
                    deploy_config, signature, mode, effective_app_dir, init_kwargs,
                    deployerAttrs, exc, lastExc, calls, vespa_app, outcome, raised,
                    loopIters, constructs >>

\* variant: the failure is wrapped in a new error before it is raised
HandlerReraise_wrapped ==
    /\ pc = "handler"
    /\ ~NeedsOverride(exc, attempted_override)
    /\ raised' = [type |-> "RuntimeError", msg |-> <<"deploy failed">>]
    /\ outcome' = "raised"
    /\ pc' = "done"
    /\ UNCHANGED << clf, confirm, wcall, chk, inv, kw,
                    deploy_config, signature, mode, app_dir, attempted_override, tmp,
                    effective_app_dir, init_kwargs, deployerAttrs, fs, garbage, nextTmp,
                    exc, lastExc, calls, vespa_app, loopIters, gateCalls,
                    overrideWrites, constructs, gate, today, until, overrideDir >>

\* line 292: every other failure is re-raised
HandlerReraise ==
    /\ pc = "handler"
    /\ ~NeedsOverride(exc, attempted_override)
    /\ raised' = exc
    /\ outcome' = "raised"
    /\ pc' = "done"
    /\ UNCHANGED << clf, confirm, wcall, chk, inv, kw,
                    deploy_config, signature, mode, app_dir, attempted_override, tmp,
                    effective_app_dir, init_kwargs, deployerAttrs, fs, garbage, nextTmp,
                    exc, lastExc, calls, vespa_app, loopIters, gateCalls,
                    overrideWrites, constructs, gate, today, until, overrideDir >>

Next ==
    \/ LoopTop
    \/ Finalize
    \/ ConstructDocker
    \/ MissingTenant
    \/ ConstructCloud
    \/ Shape1
    \/ Shape2
    \/ Shape3
    \/ ReturnTrue
    \/ HandlerDenied
    \/ HandlerOverride
    \/ HandlerReraise

Spec == Init /\ [][Next]_vars

\* ---------------------------------------------------------------- functions on their own
\* no deploy_app_package call is in progress
DeployIdle ==
    /\ deploy_config = [local |-> TRUE, tenant |-> "", application |-> "",
                        api_key_path |-> "", api_key |-> ""]
    /\ mode = "docker"
    /\ signature = {}
    /\ app_dir = None
    /\ attempted_override = FALSE
    /\ tmp = None
    /\ effective_app_dir = None
    /\ init_kwargs = <<>>
    /\ deployerAttrs = <<>>
    /\ fs = [d \in Dirs |-> EmptyDir]
    /\ garbage = {}
    /\ nextTmp = 1
    /\ pc = "idle"
    /\ exc = NoExc
    /\ lastExc = NoExc
    /\ calls = <<>>
    /\ vespa_app = NoHandle
    /\ outcome = "none"
    /\ raised = NoExc
    /\ loopIters = 0
    /\ gateCalls = 0
    /\ overrideWrites = 0
    /\ constructs = 0
    /\ gate = NoGate
    /\ today = NoDate
    /\ until = NoDate
    /\ overrideDir = None

\* _looks_like_cluster_removal_error called with any message
InitClassifier ==
    /\ DeployIdle
    /\ clf \in [pc : {"call"}, message : Messages, result : {FALSE}]
    /\ confirm = Idle /\ wcall = Idle /\ chk = Idle
    /\ inv = Idle /\ kw = Idle

\* lines 30-36
Classify ==
    /\ clf.pc = "call"
    /\ clf' = [clf EXCEPT !.pc = "returned",
                          !.result = _looks_like_cluster_removal_error(clf.message)]
    /\ UNCHANGED << deployVars, confirm, wcall, chk, inv, kw >>

NextClassifier == Classify

SpecClassifier == InitClassifier /\ [][NextClassifier]_vars

\* _confirm_cluster_removal called on a terminal or not, with any message
InitGate ==
    /\ DeployIdle
    /\ confirm \in [pc : {"call"}, isatty : BOOLEAN, message : GateMessages,
                     until : {AddDays([year |-> 2025, month |-> 12, day |-> 27],
                                      OverrideDays)},
                     answer : {NoAnswer}, console : {<<>>}, reads : {0},
                     warnings : {0}, result : {FALSE}]
    /\ clf = Idle /\ wcall = Idle /\ chk = Idle
    /\ inv = Idle /\ kw = Idle

\* variant: the terminal test is skipped
GateStart_prompting ==
    /\ confirm.pc = "call"
    /\ confirm' = [confirm EXCEPT !.pc = "print"]
    /\ UNCHANGED << deployVars, clf, wcall, chk, inv, kw >>

\* lines 47-49: not a terminal: warn and deny
GateStart ==
    /\ confirm.pc = "call"
    /\ IF ~confirm.isatty
       THEN confirm' = [confirm EXCEPT !.pc = "returned", !.result = FALSE,
                                      !.warnings = @ + 1]
       ELSE confirm' = [confirm EXCEPT !.pc = "print"]
    /\ UNCHANGED << deployVars, clf, wcall, chk, inv, kw >>

\* lines 51-57: the risk, the override and its expiry, then the message if
\* it is not blank
GatePrint ==
    /\ confirm.pc = "print"
    /\ LET risk == <<"risk", _CLUSTER_REMOVAL_ALLOWLIST_TOKEN>> \o IsoFormat(confirm.until)
           shown == IF Strip(confirm.message) # <<>>
                    THEN <<"Vespa message:">> \o Strip(confirm.message) ELSE <<>>
       IN confirm' = [confirm EXCEPT !.pc = "input", !.console = @ \o risk \o shown]
    /\ UNCHANGED << deployVars, clf, wcall, chk, inv, kw >>

\* line 58: the prompt is printed and one line is read
GateInput ==
    /\ confirm.pc = "input"
    /\ \E line \in Lines :
          confirm' = [confirm EXCEPT !.pc = "answered", !.answer = line,
                                    !.reads = @ + 1,
                                    !.console = Append(@, "[y/N]: ")]
    /\ UNCHANGED << deployVars, clf, wcall, chk, inv, kw >>

\* line 59
GateReturn ==
    /\ confirm.pc = "answered"
    /\ confirm' = [confirm EXCEPT !.pc = "returned",
                      !.result = _confirm_cluster_removal(confirm.isatty, confirm.answer)]
    /\ UNCHANGED << deployVars, clf, wcall, chk, inv, kw >>

NextGate ==
    \/ GateStart
    \/ GatePrint
    \/ GateInput
    \/ GateReturn

SpecGate == InitGate /\ [][NextGate]_vars

\* expiry dates handed to the writer
WriterDates == Todays \cup { AddDays(t, OverrideDays) : t \in Todays }

\* the directory before the first write: absent, empty, holding the package
\* and another file, or holding these and an earlier override
WriterDirs ==
    { EmptyDir,
      [exists |-> TRUE, pkg |-> FALSE, other |-> FALSE, override |-> <<>>],
      [exists |-> TRUE, pkg |-> TRUE, other |-> TRUE, override |-> <<>>],
      [exists |-> TRUE, pkg |-> TRUE, other |-> TRUE,
       override |-> _validation_overrides_xml([year |-> 2023, month |-> 1, day |-> 31])] }

\* _write_validation_overrides called repeatedly on one directory
InitWriter ==
    /\ DeployIdle
    /\ \E d \in WriterDirs :
          wcall = [pc |-> "ready", fs |-> (CallerDir :> d), initial |-> d,
                   untils |-> <<>>, writes |-> 0]
    /\ clf = Idle /\ confirm = Idle /\ chk = Idle
    /\ inv = Idle /\ kw = Idle

\* lines 62-67: one call, one write_text
WriteOverrides ==
    /\ wcall.pc = "ready"
    /\ Len(wcall.untils) < MaxWrites
    /\ \E u \in WriterDates :
          wcall' = [wcall EXCEPT
                      !.fs = _write_validation_overrides(wcall.fs, CallerDir, u),
                      !.untils = Append(@, u),
                      !.writes = @ + 1]
    /\ UNCHANGED << deployVars, clf, confirm, chk, inv, kw >>

NextWriter == WriteOverrides

SpecWriter == InitWriter /\ [][NextWriter]_vars

\* ---------------------------------------------------------------- utils.chunks
TextChars == { "a", "b", " " }

Texts == UNION { [1..n -> TextChars] : n \in 0..MaxTextLen }

\* str.split(): the maximal runs of non-whitespace characters
RECURSIVE SplitAcc(_, _, _)
SplitAcc(t, cur, acc) ==
    IF t = <<>> THEN (IF cur = <<>> THEN acc ELSE Append(acc, cur))
    ELSE IF Head(t) \in Whitespace
         THEN SplitAcc(Tail(t), <<>>, IF cur = <<>> THEN acc ELSE Append(acc, cur))
         ELSE SplitAcc(Tail(t), Append(cur, Head(t)), acc)

Split(t) == SplitAcc(t, <<>>, <<>>)

\* " ".join(ws)
RECURSIVE Join(_)
Join(ws) ==
    IF ws = <<>> THEN <<>>
    ELSE IF Len(ws) = 1 THEN ws[1]
    ELSE ws[1] \o <<" ">> \o Join(Tail(ws))

Min(a, b) == IF a <= b THEN a ELSE b

NoError == "none"

\* chunks called with any text and any chunk_size and overlap
InitChunks ==
    /\ DeployIdle
    /\ chk \in [pc : {"call"}, text : Texts, chunk_size : -1..MaxChunkSize,
                 overlap : -1..MaxChunkSize, words : {<<>>}, word_count : {0},
                 chunk_list : {<<>>}, start : {0}, result : {<<>>},
                 error : {NoError}]
    /\ clf = Idle /\ confirm = Idle /\ wcall = Idle
    /\ inv = Idle /\ kw = Idle

\* variant: an overlap equal to chunk_size is let through
ChunksValidate_offbyone ==
    /\ chk.pc = "call"
    /\ chk' = IF chk.chunk_size <= 0
              THEN [chk EXCEPT !.pc = "raised",
                               !.error = "chunk_size must be greater than 0"]
              ELSE IF chk.overlap < 0
              THEN [chk EXCEPT !.pc = "raised", !.error = "overlap must be non-negative"]
              ELSE IF chk.overlap > chk.chunk_size
              THEN [chk EXCEPT !.pc = "raised",
                               !.error = "overlap must be less than chunk_size"]
              ELSE [chk EXCEPT !.pc = "split"]
    /\ UNCHANGED << deployVars, clf, confirm, wcall, inv, kw >>

\* lines 137-142: the three ValueErrors
ChunksValidate ==
    /\ chk.pc = "call"
    /\ chk' = IF chk.chunk_size <= 0
              THEN [chk EXCEPT !.pc = "raised",
                               !.error = "chunk_size must be greater than 0"]
              ELSE IF chk.overlap < 0
              THEN [chk EXCEPT !.pc = "raised", !.error = "overlap must be non-negative"]
              ELSE IF chk.overlap >= chk.chunk_size
              THEN [chk EXCEPT !.pc = "raised",
                               !.error = "overlap must be less than chunk_size"]
              ELSE [chk EXCEPT !.pc = "split"]
    /\ UNCHANGED << deployVars, clf, confirm, wcall, inv, kw >>

\* lines 144-151: split into words; a short text is returned as it is
ChunksSplit ==
    /\ chk.pc = "split"
    /\ LET words == Split(chk.text)
           word_count == Len(words)
       IN chk' = IF word_count <= chk.chunk_size
                 THEN [chk EXCEPT !.words = words, !.word_count = word_count,
                                  !.result = <<chk.text>>, !.pc = "returned"]
                 ELSE [chk EXCEPT !.words = words, !.word_count = word_count,
                                  !.chunk_list = <<>>, !.start = 0, !.pc = "loop"]
    /\ UNCHANGED << deployVars, clf, confirm, wcall, inv, kw >>

\* variant: the window moves on by chunk_size, the overlap is ignored
ChunksLoop_nooverlap ==
    /\ chk.pc = "loop"
    /\ chk.start < chk.word_count
    /\ LET end == Min(chk.start + chk.chunk_size, chk.word_count)
       IN chk' = [chk EXCEPT
                    !.chunk_list = Append(@, Join(SubSeq(chk.words, chk.start + 1, end))),
                    !.start = @ + chk.chunk_size]
    /\ UNCHANGED << deployVars, clf, confirm, wcall, inv, kw >>

\* lines 152-155: one iteration of the while loop
ChunksLoop ==
    /\ chk.pc = "loop"
    /\ chk.start < chk.word_count
    /\ LET end == Min(chk.start + chk.chunk_size, chk.word_count)
       IN chk' = [chk EXCEPT
                    !.chunk_list = Append(@, Join(SubSeq(chk.words, chk.start + 1, end))),
                    !.start = @ + chk.chunk_size - chk.overlap]
    /\ UNCHANGED << deployVars, clf, confirm, wcall, inv, kw >>

\* lines 152 and 157: the loop ends and the list is returned
ChunksReturn ==
    /\ chk.pc = "loop"
    /\ ~(chk.start < chk.word_count)
    /\ chk' = [chk EXCEPT !.result = chk.chunk_list, !.pc = "returned"]
    /\ UNCHANGED << deployVars, clf, confirm, wcall, inv, kw >>

NextChunks ==
    \/ ChunksValidate
    \/ ChunksSplit
    \/ ChunksLoop
    \/ ChunksReturn

SpecChunks == InitChunks /\ [][NextChunks]_vars

\* ---------------------------------------------------------------- _deploy_with_pyvespa
\* what deploy() can raise: either type with every message
InvokerExceptions == [type : ExcTypes, msg : Messages]

\* _deploy_with_pyvespa called with any client
InitInvoker ==
    /\ DeployIdle
    /\ inv = [pc |-> "shape1", shapes |-> <<>>, lastExc |-> NoExc, attrs |-> <<>>,
              result |-> NoHandle, error |-> NoExc]
    /\ clf = Idle /\ confirm = Idle /\ wcall = Idle /\ chk = Idle /\ kw = Idle

\* lines 86-90 and 92-96: one deploy(...) call inside try/except; the result
\* is returned, a failure is handed to _should_fallback
InvokerTry(shape, next) ==
    \/ \E h \in Handles :
          inv' = [inv EXCEPT !.shapes = Append(@, shape), !.result = h,
                             !.pc = "returned"]
    \/ \E e \in InvokerExceptions :
          inv' = IF _should_fallback(e)
                 THEN [inv EXCEPT !.shapes = Append(@, shape), !.lastExc = e,
                                  !.pc = next]
                 ELSE [inv EXCEPT !.shapes = Append(@, shape), !.lastExc = e,
                                  !.error = e, !.pc = "raised"]

\* lines 86-90: deploy(application_package=...)
InvokerShape1 ==
    /\ inv.pc = "shape1"
    /\ InvokerTry(1, "shape2")
    /\ UNCHANGED << deployVars, clf, confirm, wcall, chk, kw >>

\* lines 92-96: deploy(application_root=...)
InvokerShape2 ==
    /\ inv.pc = "shape2"
    /\ InvokerTry(2, "shape3")
    /\ UNCHANGED << deployVars, clf, confirm, wcall, chk, kw >>

\* lines 98-110: the attributes are assigned, then deploy() outside any try
InvokerShape3 ==
    /\ inv.pc = "shape3"
    /\ \E has \in ClientAttrSets :
          \E fails \in SUBSET has :
             LET attrs == [a \in { AttrNames[i] : i \in DOMAIN AttrNames }
                                   \cap (has \ fails) |->
                             IF a = "application_root" THEN "application_root"
                             ELSE "app_package"]
             IN \/ \E h \in Handles :
                      inv' = [inv EXCEPT !.shapes = Append(@, 3), !.attrs = attrs,
                                         !.result = h, !.pc = "returned"]
                \/ \E e \in InvokerExceptions :
                      inv' = [inv EXCEPT !.shapes = Append(@, 3), !.attrs = attrs,
                                         !.lastExc = e, !.error = e, !.pc = "raised"]
    /\ UNCHANGED << deployVars, clf, confirm, wcall, chk, kw >>

NextInvoker ==
    \/ InvokerShape1
    \/ InvokerShape2
    \/ InvokerShape3

SpecInvoker == InitInvoker /\ [][NextInvoker]_vars

\* ---------------------------------------------------------------- constructor arguments
\* names a client constructor may declare: the ones the orchestrator knows
\* and one it does not
ParamNames ==
    { "image", "docker_image", "cfgsrv_url", "application_package", "application_root",
      "tenant", "application", "instance", "api_key_path", "api_key", "port" }

\* every DeployConfig as seen through its accessors
KwConfigs ==
    [local : BOOLEAN, tenant : {"", "acme"}, application : {"", "app"},
     api_key_path : {"", "/k.pem"}, api_key : {"", "key"}]

\* the client is constructed for any declared parameter set and any config
InitKwargs ==
    /\ DeployIdle
    /\ kw \in [pc : {"call"}, sig : SUBSET ParamNames, cfg : KwConfigs,
                root : {CallerDir}, init_kwargs : {<<>>}, error : {NoExc}]
    /\ clf = Idle /\ confirm = Idle /\ wcall = Idle /\ chk = Idle /\ inv = Idle

\* lines 178-207
KwDocker ==
    /\ kw.pc = "call"
    /\ kw.cfg.local
    /\ kw' = [kw EXCEPT !.init_kwargs = DockerInitKwargs(kw.sig, kw.root),
                        !.pc = "constructed"]
    /\ UNCHANGED << deployVars, clf, confirm, wcall, chk, inv >>

\* lines 218-223
KwMissingTenant ==
    /\ kw.pc = "call"
    /\ ~kw.cfg.local
    /\ kw.cfg.tenant = ""
    /\ kw' = [kw EXCEPT !.error = [type |-> "RuntimeError",
                                   msg |-> <<"Missing env var: VESPA_CLOUD_TENANT">>],
                        !.pc = "raised"]
    /\ UNCHANGED << deployVars, clf, confirm, wcall, chk, inv >>

\* lines 218-257
KwCloud ==
    /\ kw.pc = "call"
    /\ ~kw.cfg.local
    /\ kw.cfg.tenant # ""
    /\ kw' = [kw EXCEPT !.init_kwargs = CloudInitKwargs(kw.sig, kw.cfg, kw.root),
                        !.pc = "constructed"]
    /\ UNCHANGED << deployVars, clf, confirm, wcall, chk, inv >>

NextKwargs ==
    \/ KwDocker
    \/ KwMissingTenant
    \/ KwCloud

SpecKwargs == InitKwargs /\ [][NextKwargs]_vars

\* ---------------------------------------------------------------- properties
\* the messages of ClientMessages that report a cluster-removal refusal
RefusalMessages ==
    { <<"Content-Cluster-Removal">>, <<"REMOVED", "timeout", "content cluster">>,
      <<"Either application_package or application_root must be set",
        "content-cluster-removal">> }

\* the failures that are shape mismatches
IsMismatch(e) ==
    \/ e.type = "TypeError"
    \/ e.msg \in { <<"Either application_package or application_root must be set">>,
                   <<"Either application_package or application_root must be set",
                     "content-cluster-removal">> }

\* the gate was asked on a terminal and the answer was y / yes
Affirmative(g) == g.isatty /\ g.answer \in { <<"y">>, <<" ", "Y", "E", "S", "\t">> }

\* the override document for each day of Todays, seven days later
ExpectedOverride(t) ==
    LET iso == CASE t = [year |-> 2024, month |-> 2, day |-> 23]
                      -> <<"2", "0", "2", "4", "-", "0", "3", "-", "0", "1">>
                 [] t = [year |-> 2025, month |-> 12, day |-> 27]
                      -> <<"2", "0", "2", "6", "-", "0", "1", "-", "0", "3">>
                 [] t = [year |-> 2026, month |-> 11, day |-> 2]
                      -> <<"2", "0", "2", "6", "-", "1", "1", "-", "0", "9">>
    IN <<"<validation-overrides>\n", "  <allow until='">> \o iso
          \o <<"'>", "content-cluster-removal", "</allow>\n", "</validation-overrides>\n">>

\* the deploy() calls of the current attempt
CurrentCalls == SelectSeq(calls, LAMBDA c : c.attempt = loopIters)

AnyOk(cs) == \E i \in DOMAIN cs : cs[i].ok

\* what a step that leaves the handler by re-raising must look like
Reraised ==
    /\ pc' = "done" /\ outcome' = "raised" /\ raised' = exc
    /\ gateCalls' = gateCalls /\ overrideWrites' = overrideWrites
    /\ loopIters' = loopIters /\ constructs' = constructs
    /\ calls' = calls /\ fs' = fs

\* C1: within one call the gate runs at most once, validation-overrides.xml
\* is written at most once and the loop body executes at most twice, whatever
\* the client does.
Thm_C1 == gateCalls <= 1 /\ overrideWrites <= 1 /\ loopIters <= 2

\* the retry was refused again: second failure of the call, override spent
Wit_C1 ==
    /\ pc = "handler" /\ loopIters = 2 /\ gateCalls = 1 /\ overrideWrites = 1
    /\ exc.msg \in RefusalMessages

\* C2: the override file and the second attempt exist only after an
\* affirmative answer on a terminal; a denial ends the call at once with
\* false, no exception, no override file anywhere, and no further deploy call.
Thm_C2 ==
    /\ [](((overrideWrites > 0 \/ loopIters > 1 \/ \E d \in Dirs : fs[d].override # <<>>)
             => (gateCalls = 1 /\ Affirmative(gate)))
          /\ ((gateCalls > 0 /\ ~Affirmative(gate))
                => /\ pc = "done" /\ outcome = "false" /\ raised = NoExc
                   /\ overrideWrites = 0 /\ loopIters = 1
                   /\ \A d \in Dirs : fs[d].override = <<>>))
    /\ [][(gateCalls > 0 /\ ~Affirmative(gate))
             => (calls' = calls /\ constructs' = constructs /\ outcome' = outcome)]_vars

\* denied by an explicit "n" on a terminal after a refusal of the first attempt
Wit_C2 ==
    /\ gateCalls = 1 /\ gate.isatty /\ gate.answer = <<"n">>
    /\ outcome = "false" /\ Len(calls) > 0

\* C3: first attempt refused, gate answered "y": the override document with
\* until = today + 7 days is written, exactly one retry follows, and a retry
\* that succeeds makes the call return true.
Thm_C3 ==
    /\ [][(pc = "handler" /\ gateCalls' = 1 /\ gateCalls = 0 /\ Affirmative(gate'))
             => /\ overrideDir' \in Dirs
                /\ fs'[overrideDir'].exists
                /\ fs'[overrideDir'].override = ExpectedOverride(today')
                /\ overrideWrites' = 1
                /\ pc' = "loop" /\ loopIters' = 1]_vars
    /\ [](attempted_override
            => /\ loopIters \in 1..2
               /\ (loopIters = 1 => pc = "loop")
               /\ (pc = "done" => loopIters = 2)
               /\ (AnyOk(calls) => pc \in {"deployed", "done"})
               /\ ((AnyOk(calls) /\ pc = "done") => outcome = "true"))

\* answered "y" on a leap-year 23 February, retry succeeded, call returned true
Wit_C3 ==
    /\ gate.isatty /\ gate.answer = <<"y">>
    /\ today = [year |-> 2024, month |-> 2, day |-> 23]
    /\ loopIters = 2 /\ pc = "done" /\ outcome = "true"

\* C4: when the retry calls deploy(), the application root is the directory
\* the override was written into, it exists and holds the override file.
CX_C4 ==
    (attempted_override /\ pc \in {"shape1", "shape2", "shape3"})
        => /\ effective_app_dir = overrideDir
           /\ fs[overrideDir].exists
           /\ fs[overrideDir].override # <<>>

\* C5: a refusal after the override was attempted is re-raised unchanged: no
\* gate, no write, no retry, no false.
Thm_C5 ==
    [][(pc = "handler" /\ attempted_override /\ exc.msg \in RefusalMessages
          /\ pc' # "handler") => Reraised]_vars

\* the call ended by raising the refusal of the retry
Wit_C5 ==
    /\ pc = "done" /\ attempted_override /\ outcome = "raised"
    /\ raised.msg \in RefusalMessages /\ loopIters = 2

\* C6: a failure that is neither a shape mismatch nor a refusal reaches the
\* caller as it is: the invoker does not fall back, the handler re-raises it,
\* and nothing happens after that.
Thm_C6 ==
    /\ [][(Len(calls') > Len(calls) /\ ~calls'[Len(calls')].ok
             /\ ~IsMismatch(lastExc') /\ lastExc'.msg \notin RefusalMessages)
             => (pc' = "handler" /\ exc' = lastExc')]_vars
    /\ [][(pc = "handler" /\ exc.msg \notin RefusalMessages /\ pc' # "handler")
             => Reraised]_vars
    /\ [][pc = "done"
             => (pc' = "done" /\ calls' = calls /\ gateCalls' = gateCalls
                 /\ overrideWrites' = overrideWrites /\ outcome' = outcome
                 /\ raised' = raised)]_vars

\* a timeout of the first call shape reached the caller, gate never asked
Wit_C6 ==
    /\ pc = "done" /\ outcome = "raised" /\ gateCalls = 0 /\ overrideWrites = 0
    /\ raised = [type |-> "RuntimeError", msg |-> <<"timeout">>]
    /\ Len(calls) = 1 /\ loopIters = 1

\* C7: the call ends in exactly one of three ways: true iff some deploy()
\* call succeeded, false iff a refusal met a denying gate, raising otherwise.
Thm_C7 ==
    /\ (pc # "done" => outcome = "none")
    /\ (AnyOk(calls) => pc \in {"deployed", "done"})
    /\ (pc = "done"
          => /\ outcome \in {"true", "false", "raised"}
             /\ (outcome = "true" <=> AnyOk(calls))
             /\ (outcome = "false"
                   <=> (exc.msg \in RefusalMessages /\ gateCalls = 1 /\ ~Affirmative(gate)))
             /\ (outcome = "raised" <=> raised # NoExc)
             /\ (outcome = "raised" => raised = exc))

\* non-interactive denial of a refusal raised by the third call shape
Wit_C7 ==
    /\ pc = "done" /\ outcome = "false" /\ ~gate.isatty
    /\ Len(calls) = 3

\* C8: the call shapes are tried in the order 1, 2, 3; a later shape is called
\* only after the one before failed with a shape mismatch; any other failure
\* of shape 1 or 2 propagates at once.
Thm_C8 ==
    /\ [](\A i \in DOMAIN calls :
            IF i = 1 \/ calls[i - 1].attempt # calls[i].attempt
            THEN calls[i].shape = 1
            ELSE calls[i].shape = calls[i - 1].shape + 1 /\ ~calls[i - 1].ok)
    /\ [][(Len(calls') > Len(calls) /\ calls'[Len(calls')].shape > 1)
             => IsMismatch(lastExc)]_vars
    /\ [][(Len(calls') > Len(calls) /\ ~calls'[Len(calls')].ok
             /\ calls'[Len(calls')].shape < 3)
             => IF IsMismatch(lastExc')
                THEN pc' = (IF calls'[Len(calls')].shape = 1 THEN "shape2" ELSE "shape3")
                       /\ exc' = exc
                ELSE pc' = "handler" /\ exc' = lastExc']_vars

\* all three shapes were called in the first attempt
Wit_C8 ==
    /\ loopIters = 1 /\ Len(calls) = 3
    /\ calls[1].shape = 1 /\ calls[2].shape = 2 /\ calls[3].shape = 3

\* C9: an invocation of the invoker ends with exactly one successful call,
\* the last one, whose result is returned, or with the failure of the last
\* call made propagating.
Thm_C9 ==
    /\ (pc = "deployed"
          => /\ CurrentCalls # <<>>
             /\ \A i \in DOMAIN CurrentCalls : CurrentCalls[i].ok <=> i = Len(CurrentCalls)
             /\ vespa_app = CurrentCalls[Len(CurrentCalls)].result)
    /\ ((pc = "handler" /\ CurrentCalls # <<>>)
          => /\ ~AnyOk(CurrentCalls)
             /\ exc = lastExc
             /\ exc \in Exceptions)

\* the invoker gave up after the third shape failed
Wit_C9 ==
    /\ pc = "handler" /\ Len(CurrentCalls) = 3 /\ exc = lastExc
    /\ exc.type = "TypeError"

\* C10: when earlier shapes fail with a shape mismatch and a later one
\* succeeds, the invoker returns that shape's result, nothing propagates and
\* no further shape is called.
Thm_C10 ==
    /\ []((pc \in {"deployed", "done"} /\ AnyOk(CurrentCalls) /\ Len(CurrentCalls) > 1)
            => /\ vespa_app = CurrentCalls[Len(CurrentCalls)].result
               /\ vespa_app \in Handles
               /\ \A i \in 1..(Len(CurrentCalls) - 1) : ~CurrentCalls[i].ok
               /\ exc = NoExc /\ raised = NoExc
               /\ outcome \in {"none", "true"})
    /\ [][AnyOk(CurrentCalls) => calls' = calls]_vars

\* shape 1 failed with a shape mismatch, shape 2 returned h2
Wit_C10 ==
    /\ pc = "deployed" /\ Len(calls) = 2
    /\ ~calls[1].ok /\ calls[2].ok /\ calls[2].shape = 2
    /\ vespa_app = "h2" /\ IsMismatch(lastExc)

\* C11: the classifier returns true iff the message holds the allow-list
\* token in any case, or both "content cluster" and "removed" in any case and
\* order; false for every other message, the empty one included.
Thm_C11 ==
    clf.pc = "returned"
        => (clf.result
              <=> LET has(fs_) == \E i \in DOMAIN clf.message : clf.message[i] \in fs_
                  IN \/ has({"content-cluster-removal", "Content-Cluster-Removal"})
                     \/ /\ has({"content cluster", "Content Cluster"})
                        /\ has({"removed", "REMOVED"}))

\* "REMOVED" before "Content Cluster": true by the two phrases, in upper case
Wit_C11 ==
    /\ clf.pc = "returned" /\ clf.result
    /\ clf.message = <<"REMOVED", "Content Cluster">>

\* C12: off a terminal the gate returns false, reads no line and prints no
\* prompt; it only logs a warning.
Thm_C12 ==
    (confirm.pc # "idle" /\ ~confirm.isatty)
        => /\ confirm.reads = 0 /\ confirm.console = <<>>
           /\ confirm.pc \in {"call", "returned"}
           /\ (confirm.pc = "returned" => (~confirm.result /\ confirm.warnings = 1))

\* the gate returned off a terminal
Wit_C12 ==
    /\ confirm.pc = "returned" /\ ~confirm.isatty /\ confirm.warnings = 1
    /\ confirm.message # <<>>

\* the line is y or yes in any case, with blanks before and after only
YesLine(line) ==
    \E i, j \in 1..Len(line) :
        /\ \A k \in 1..(i - 1) : line[k] \in {" ", "\t"}
        /\ \A k \in (j + 1)..Len(line) : line[k] \in {" ", "\t"}
        /\ \/ j = i /\ line[i] \in {"y", "Y"}
           \/ /\ j = i + 2 /\ line[i] \in {"y", "Y"}
              /\ line[i + 1] \in {"e", "E"} /\ line[i + 2] \in {"s", "S"}

\* C13: on a terminal the gate reads exactly one line and returns true iff
\* the line, trimmed and case-folded, is "y" or "yes".
Thm_C13 ==
    (confirm.pc # "idle" /\ confirm.isatty)
        => /\ confirm.reads = (IF confirm.pc \in {"answered", "returned"} THEN 1 ELSE 0)
           /\ confirm.warnings = 0
           /\ (confirm.pc = "returned" => (confirm.result <=> YesLine(confirm.answer)))

\* "YEs " with a trailing blank is accepted
Wit_C13 ==
    /\ confirm.pc = "returned" /\ confirm.isatty /\ confirm.result
    /\ confirm.answer = <<"Y", "E", "s", " ">>

\* C14: cloud mode without a tenant raises the runtime error naming
\* VESPA_CLOUD_TENANT; no client is constructed, no deploy() call is made, the
\* gate is not asked and nothing is retried.
Thm_C14 ==
    (mode = "cloud" /\ deploy_config.tenant = "")
        => /\ constructs = 0 /\ calls = <<>> /\ gateCalls = 0 /\ overrideWrites = 0
           /\ loopIters <= 1
           /\ pc \in {"loop", "select", "handler", "done"}
           /\ (pc = "handler"
                 => exc = [type |-> "RuntimeError",
                           msg |-> <<"Missing env var: VESPA_CLOUD_TENANT">>])
           /\ (pc = "done"
                 => /\ outcome = "raised"
                    /\ raised = [type |-> "RuntimeError",
                                 msg |-> <<"Missing env var: VESPA_CLOUD_TENANT">>])

\* the call ended with the missing-tenant error
Wit_C14 ==
    /\ mode = "cloud" /\ deploy_config.tenant = ""
    /\ pc = "done" /\ outcome = "raised" /\ loopIters = 1

\* a step of the call itself (Finalize is the interpreter's)
CallStep ==
    \/ LoopTop \/ ConstructDocker \/ MissingTenant \/ ConstructCloud
    \/ Shape1 \/ Shape2 \/ Shape3 \/ ReturnTrue
    \/ HandlerDenied \/ HandlerOverride \/ HandlerReraise

\* distance to the end of the call: the override still available, the
\* position in the loop body, the directories still to be finalized
Rank ==
    LET pcRank == CASE pc = "loop" -> 6 [] pc = "select" -> 5 [] pc = "shape1" -> 4
                    [] pc = "shape2" -> 3 [] pc = "shape3" -> 2
                    [] pc \in {"deployed", "handler"} -> 1 [] pc = "done" -> 0
    IN (IF attempted_override THEN 0 ELSE 32) + 3 * pcRank + Cardinality(garbage)

\* C15: every call ends, returning true or false or raising, after at most
\* two executions of the loop body, whatever fails: while the call has not
\* ended a step of it is possible (given that the client and the prompt
\* return), every step brings the end nearer, and the end is one of the
\* three outcomes.
Thm_C15 ==
    /\ [](/\ loopIters <= 2
          /\ Rank \in 0..50
          /\ (pc # "done" => ENABLED CallStep)
          /\ (pc = "done" <=> outcome \in {"true", "false", "raised"}))
    /\ [][Rank' < Rank]_vars

\* a call that ended after its second loop iteration failed too
Wit_C15 ==
    /\ pc = "done" /\ loopIters = 2 /\ outcome = "raised"
    /\ raised.type = "TypeError" /\ Len(calls) = 6

\* C16: a caller-supplied app_dir is the application root; the core never
\* deletes it, never writes the package into it and creates no temporary
\* directory; its only write there is validation-overrides.xml after a
\* confirmed override. Without app_dir the package goes into temporary
\* directories of the core, a fresh one for the override retry, and the
\* caller's directory is not touched.
Thm_C16 ==
    /\ [](app_dir = CallerDir
            => /\ effective_app_dir \in {None, CallerDir}
               /\ (pc \in {"select", "shape1", "shape2", "shape3"}
                     => effective_app_dir = CallerDir)
               /\ nextTmp = 1 /\ tmp = None /\ garbage = {}
               /\ \A d \in TmpDirs : fs[d] = EmptyDir
               /\ overrideDir \in {None, CallerDir})
    /\ [][app_dir = CallerDir
            => /\ app_dir' = CallerDir
               /\ fs'[CallerDir].pkg = fs[CallerDir].pkg
               /\ fs'[CallerDir].other = fs[CallerDir].other
               /\ (fs[CallerDir].exists => fs'[CallerDir].exists)
               /\ (fs'[CallerDir] # fs[CallerDir]
                     => /\ overrideWrites' = overrideWrites + 1
                        /\ Affirmative(gate')
                        /\ fs'[CallerDir].override # <<>>)]_vars
    /\ [](app_dir # CallerDir
            => /\ fs[CallerDir] = EmptyDir
               /\ (pc \in {"select", "shape1", "shape2", "shape3"}
                     => effective_app_dir \in TmpDirs)
               /\ (attempted_override => (overrideDir \in TmpDirs /\ overrideDir = 2)))
    /\ [][(app_dir # CallerDir /\ nextTmp' # nextTmp)
            => /\ nextTmp' = nextTmp + 1
               /\ fs[nextTmp] = EmptyDir
               /\ fs'[nextTmp].exists /\ fs'[nextTmp].pkg
               /\ tmp' = nextTmp]_vars

\* the retry is calling deploy(application_root=...) on the caller's
\* directory, which did not exist before and now holds only the override file
Wit_C16 ==
    /\ app_dir = CallerDir /\ pc = "shape2" /\ attempted_override
    /\ fs[CallerDir].exists /\ ~fs[CallerDir].pkg /\ fs[CallerDir].override # <<>>

\* the ISO-8601 form of each date of WriterDates
IsoOf(d) ==
    CASE d = [year |-> 2024, month |-> 2, day |-> 23]
           -> <<"2", "0", "2", "4", "-", "0", "2", "-", "2", "3">>
      [] d = [year |-> 2024, month |-> 3, day |-> 1]
           -> <<"2", "0", "2", "4", "-", "0", "3", "-", "0", "1">>
      [] d = [year |-> 2025, month |-> 12, day |-> 27]
           -> <<"2", "0", "2", "5", "-", "1", "2", "-", "2", "7">>
      [] d = [year |-> 2026, month |-> 1, day |-> 3]
           -> <<"2", "0", "2", "6", "-", "0", "1", "-", "0", "3">>
      [] d = [year |-> 2026, month |-> 11, day |-> 2]
           -> <<"2", "0", "2", "6", "-", "1", "1", "-", "0", "2">>
      [] d = [year |-> 2026, month |-> 11, day |-> 9]
           -> <<"2", "0", "2", "6", "-", "1", "1", "-", "0", "9">>

\* C17: each call makes one file write; after writes with d1 and then d2 the
\* directory exists and validation-overrides.xml holds the single grant of
\* content-cluster-removal until d2; the other files are as before.
Thm_C17 ==
    wcall.pc = "ready"
        => LET n == Len(wcall.untils)
               dir == wcall.fs[CallerDir]
           IN /\ wcall.writes = n
              /\ dir.pkg = wcall.initial.pkg /\ dir.other = wcall.initial.other
              /\ (n = 0 => dir = wcall.initial)
              /\ (n > 0
                    => /\ dir.exists
                       /\ dir.override =
                            <<"<validation-overrides>\n", "  <allow until='">>
                              \o IsoOf(wcall.untils[n])
                              \o <<"'>", "content-cluster-removal", "</allow>\n",
                                   "</validation-overrides>\n">>)

\* two writes with different dates into a directory that held an earlier
\* override and other files
Wit_C17 ==
    /\ wcall.pc = "ready" /\ Len(wcall.untils) = 2
    /\ wcall.untils[1] # wcall.untils[2]
    /\ wcall.initial.override # <<>> /\ wcall.initial.other

\* the parameters chunks rejects
BadParams(c) == c.chunk_size <= 0 \/ c.overlap < 0 \/ c.overlap >= c.chunk_size

\* C18: chunks raises ValueError, before any chunk is made, exactly when
\* chunk_size <= 0, overlap < 0 or overlap >= chunk_size.
Thm_C18 ==
    chk.pc \notin {"idle", "call"}
        => /\ (chk.pc = "raised" <=> BadParams(chk))
           /\ (chk.pc = "raised"
                 => /\ chk.error # NoError
                    /\ chk.result = <<>> /\ chk.chunk_list = <<>> /\ chk.words = <<>>)
           /\ (chk.pc # "raised" => chk.error = NoError)

\* overlap equal to chunk_size is rejected
Wit_C18 ==
    /\ chk.pc = "raised" /\ chk.chunk_size = 2 /\ chk.overlap = 2
    /\ chk.error = "overlap must be less than chunk_size"
    /\ Len(chk.text) = MaxTextLen

\* C19: with valid parameters chunks ends; a text of at most chunk_size words
\* comes back as [text]; otherwise there are ceil(n / (chunk_size - overlap))
\* chunks, chunk i holds the words from index i * (chunk_size - overlap) on,
\* at most chunk_size and at least one of them, and every word is in a chunk.
Thm_C19 ==
    /\ []((chk.pc = "returned" /\ ~BadParams(chk))
            => LET ws == Split(chk.text)
                   n == Len(ws)
                   step == chk.chunk_size - chk.overlap
                   k == Len(chk.result)
                   first(i) == (i - 1) * step
                   last(i) == Min(first(i) + chk.chunk_size, n)
               IN IF n <= chk.chunk_size
                  THEN chk.result = <<chk.text>>
                  ELSE /\ k = (n + step - 1) \div step
                       /\ \A i \in 1..k :
                            /\ first(i) < last(i)
                            /\ chk.result[i] = Join(SubSeq(ws, first(i) + 1, last(i)))
                            /\ Split(chk.result[i]) = SubSeq(ws, first(i) + 1, last(i))
                            /\ Len(Split(chk.result[i])) \in 1..chk.chunk_size
                       /\ \A j \in 1..n : \E i \in 1..k : first(i) < j /\ j <= last(i)
                       /\ ((chk.overlap = 0 /\ n % chk.chunk_size = 0)
                             => /\ k = n \div chk.chunk_size
                                /\ \A i \in 1..k :
                                     Len(Split(chk.result[i])) = chk.chunk_size))
    /\ [](chk.pc = "loop"
            => /\ Len(chk.chunk_list) <= chk.word_count
               /\ chk.start <= chk.word_count + chk.chunk_size)
    /\ [][chk.pc = "loop" => (chk'.start > chk.start \/ chk'.pc = "returned")]_vars

\* four words in windows of three moving on by two: two chunks, the second short
Wit_C19 ==
    /\ chk.pc = "returned" /\ chk.chunk_size = 3 /\ chk.overlap = 1
    /\ chk.text = <<"a", " ", "b", " ", "b", " ", "a">>
    /\ chk.result = << <<"a", " ", "b", " ", "b">>, <<"b", " ", "a">> >>

\* C20: consecutive chunks share exactly `overlap` words: the last `overlap`
\* words of a chunk are the first `overlap` words of the next.
CX_C20 ==
    (chk.pc = "returned" /\ Len(chk.result) > 1)
        => \A i \in 1..(Len(chk.result) - 1) :
              LET a == Split(chk.result[i])
                  b == Split(chk.result[i + 1])
              IN /\ Len(a) >= chk.overlap
                 /\ Len(b) >= chk.overlap
                 /\ SubSeq(a, Len(a) - chk.overlap + 1, Len(a)) = SubSeq(b, 1, chk.overlap)

\* C21: a failure of shape 1 or 2 leads to the next shape iff it is a
\* TypeError or its message holds the text "Either application_package or
\* application_root must be set" as written; every other failure of shape 1
\* or 2, and every failure of shape 3, propagates.
Thm_C21 ==
    [][(Len(inv'.shapes) > Len(inv.shapes) /\ inv'.pc # "returned")
         => LET shape == inv'.shapes[Len(inv'.shapes)]
                e == inv'.lastExc
                mismatch ==
                    \/ e.type = "TypeError"
                    \/ \E i \in DOMAIN e.msg :
                          e.msg[i] = "Either application_package or application_root must be set"
            IN IF shape < 3 /\ mismatch
               THEN /\ inv'.pc = (IF shape = 1 THEN "shape2" ELSE "shape3")
                    /\ inv'.error = NoExc
               ELSE inv'.pc = "raised" /\ inv'.error = e]_vars

\* the third shape fails with a TypeError carrying the missing-package text,
\* and that failure propagates
Wit_C21 ==
    /\ inv.pc = "raised" /\ inv.shapes = <<1, 2, 3>>
    /\ inv.error = [type |-> "TypeError",
                    msg |-> <<"Either application_package or application_root must be set">>]

\* C22: whatever parameter names the client constructor declares, it is
\* called only with keyword arguments it declares, taken from the local or
\* the cloud list; a local client never gets both image and docker_image, and
\* gets image when both are declared.
Thm_C22 ==
    kw.pc = "constructed"
        => LET keys == DOMAIN kw.init_kwargs
           IN /\ keys \subseteq kw.sig
              /\ IF kw.cfg.local
                 THEN /\ keys \subseteq {"image", "docker_image", "cfgsrv_url",
                                         "application_package", "application_root"}
                      /\ ~({"image", "docker_image"} \subseteq keys)
                      /\ ("image" \in kw.sig => "image" \in keys)
                 ELSE keys \subseteq {"tenant", "application", "instance",
                                      "application_package", "application_root",
                                      "api_key_path", "api_key"}

\* a local client declaring both image names, and one more the orchestrator
\* does not know, is built with image
Wit_C22 ==
    /\ kw.pc = "constructed" /\ kw.cfg.local
    /\ {"image", "docker_image", "port", "tenant"} \subseteq kw.sig
    /\ "image" \in DOMAIN kw.init_kwargs

\* the deploy() calls made in loop iteration a
CallsOf(a) == SelectSeq(calls, LAMBDA c : c.attempt = a)

\* C23: in one call of deploy_app_package the client is constructed at most
\* twice, once per attempt at most, and deploy() is called at most six times,
\* three per attempt at most, in at most two attempts; the backend is fixed
\* by the config before the first attempt and every construction is of that
\* backend (a cloud client is the one constructed with a tenant).
Thm_C23 ==
    /\ [](/\ constructs <= 2 /\ constructs <= loopIters /\ loopIters <= 2
          /\ Len(calls) <= 6
          /\ \A i \in DOMAIN calls : calls[i].attempt \in 1..2
          /\ \A a \in 1..2 : Len(CallsOf(a)) <= 3
          /\ (calls # <<>> => constructs >= calls[Len(calls)].attempt)
          /\ (pc # "idle" => mode = (IF deploy_config.local THEN "docker" ELSE "cloud")))
    /\ [][/\ mode' = mode
          /\ deploy_config' = deploy_config
          /\ (constructs' # constructs
                => /\ constructs' = constructs + 1
                   /\ ("tenant" \in DOMAIN init_kwargs' <=> mode = "cloud"))]_vars

\* two cloud clients and six deploy() calls, the last of which succeeds
Wit_C23 ==
    /\ pc = "done" /\ outcome = "true" /\ mode = "cloud"
    /\ constructs = 2 /\ Len(calls) = 6 /\ "tenant" \in DOMAIN init_kwargs

====
